---- MODULE Spec2Model ----
(***************************************************************************)
(* Model of AliEMCalTriggerRecTrackAnalysisComponent (CreateHistos,        *)
(* Process, IsMCTrueTrack, FillHistogram, FillCorrelation) and of the      *)
(* macro AddTaskUpcNano_MB.                                                *)
(*                                                                         *)
(* Numbers are integers: pt, eta, phi, vertex z and weights are drawn from *)
(* small integer sets, which keeps Abs, the eta sign flip and the weight   *)
(* exact.  A histogram name Form("<prefix>%s", name) is the pair           *)
(* <<prefix, name>>; no prefix is a prefix of another, so the pair stands  *)
(* for exactly one string.                                                 *)
(*                                                                         *)
(* The matched-track container is not held in the state: every pass of the *)
(* track loop draws the track the iterator returns from Tracks, and the    *)
(* loop may end after any pass, so containers of every length and content  *)
(* are covered.  fills holds the FillTHnSparse calls of the current pass,  *)
(* fHistos the histograms which have got entries so far.                   *)
(*                                                                         *)
(* A call through a NULL pointer is undefined behaviour: the model lets it *)
(* end the program (pc = "crashed") or go on with an arbitrary result.     *)
(***************************************************************************)
EXTENDS Integers, Sequences, FiniteSets, TLC

VARIABLES
  fSwapEta,         \* configuration: swap the sign of eta
  fRequestMCtrue,   \* configuration: accept only MC-true tracks
  fKineCuts,        \* configuration: TRUE iff a kinematic cut object is set
  fTrackSelection,  \* configuration: TRUE iff a track selection object is set
  fWeightHandler,   \* configuration: TRUE iff a weight handler is set
  data,             \* the AliEMCalTriggerEventData handed to Process
  pc,               \* position of Process: "start", "loop", "done", "crashed"
  triggernames,     \* local of Process: names of the triggers which selected the event
  weight,           \* local of Process: event weight
  track,            \* local of Process: track returned by the iterator, NULL before
  assocMC,          \* local of Process: associated MC particle or NULL
  hasCluster,       \* local of Process: matched cluster found
  fills,            \* FillTHnSparse calls made by the current loop iteration
  fHistos,          \* histogram container: the THnSparses which have entries
  nErrors,          \* number of AliError messages
  mgr,              \* the analysis manager seen by AddTaskUpcNano_MB
  tasks,            \* tasks added to the manager
  ret               \* what the last call of AddTaskUpcNano_MB returned

vars == <<fSwapEta, fRequestMCtrue, fKineCuts, fTrackSelection, fWeightHandler,
          data, pc, triggernames, weight, track, assocMC, hasCluster,
          fills, fHistos, nErrors, mgr, tasks, ret>>

compVars == <<fSwapEta, fRequestMCtrue, fKineCuts, fTrackSelection, fWeightHandler,
              data, pc, triggernames, weight, track, assocMC, hasCluster,
              fills, fHistos, nErrors>>

upcVars == <<mgr, tasks, ret>>

\* A NULL pointer to an event, a handler or a container.
NULL == "NULL"

\* A NULL pointer to a track or a particle.
NullObj == [null |-> TRUE]

\* ---------------------------------------------------------------- bounds
\* Trigger classes of the table an event may be selected by.
MaxTriggers == 2
\* Calls of AddTaskUpcNano_MB.
MaxTasks == 3

Abs(x) == IF x < 0 THEN -x ELSE x

\* ---------------------------------------------------------------- inputs
\* The trigger classes CreateHistos knows.
TriggerTable ==
  <<"MinBias", "EMCJHigh", "EMCJLow", "EMCGHigh", "EMCGLow", "EMCHighBoth",
    "EMCHighGammaOnly", "EMCHighJetOnly", "EMCLowBoth", "EMCLowGammaOnly",
    "EMCLowJetOnly">>

RECURSIVE SubSeqsUpTo(_)
\* The subsequences of the first n entries of the table, in table order.
SubSeqsUpTo(n) ==
  IF n = 0 THEN {<<>>}
  ELSE LET rest == SubSeqsUpTo(n - 1)
       IN  rest \cup {Append(s, TriggerTable[n]) : s \in rest}

\* What GetMachingTriggerNames can put into triggernames.
TriggerNameLists == SubSeqsUpTo(MaxTriggers)

\* The tracks of the matched-track container.  clus is GetEMCALcluster() of
\* testtrack (the track itself, or the track inside an AliPicoTrack); kine and
\* sel are what fKineCuts->IsSelected and fTrackSelection->IsTrackAccepted
\* answer for the track.
Tracks ==
  { [pt |-> IF c = 0 THEN 5 ELSE -3, eta |-> IF l = 0 THEN 1 ELSE -2, phi |-> 1 + Abs(l),
     label |-> l, clus |-> c, kine |-> s \in {"ok", "notrk"}, sel |-> s \in {"ok", "nokine"}]
    : l \in {0, -1, 2}, c \in {-1, 0, 1}, s \in {"ok", "nokine", "notrk"} }

\* The cluster container, when present: At(0) is a cluster, every other index
\* yields no AliVCluster.
ClusterAt(i) == IF i = 0 THEN "cluster" ELSE NULL

\* The MC events: "AOD" holds AliAODMCParticles, which carry the primary flag
\* themselves, "ESD" holds particles for which the event is asked by label.
\* Label 0 is a physical primary, label 1 is not, there is no particle beyond.
MCKinds == {"AOD", "ESD"}

GetTrack(evnt, label) ==
  IF label \notin {0, 1} THEN NullObj
  ELSE [pt |-> IF label = 0 THEN -4 ELSE 6, eta |-> 2 + label, phi |-> 3,
        aod |-> evnt = "AOD", primary |-> (evnt = "AOD" /\ label = 0)]

\* AliMCEvent::IsPhysicalPrimary(label) of the "ESD" kind of event.
EventIsPhysicalPrimary(evnt, label) == evnt = "ESD" /\ label = 0

\* AliEMCalTriggerWeightHandler::GetEventWeight(mcevent).
GetEventWeight(evnt) == IF evnt = "AOD" THEN 2 ELSE 3

EventData ==
  [matched  : BOOLEAN,            \* GetMatchedTrackContainer() is not NULL
   clusters : BOOLEAN,            \* GetClusterContainer() is not NULL
   mc       : MCKinds \cup {NULL},\* GetMCEvent()
   triggers : TriggerNameLists,   \* the trigger classes the event satisfies
   minbias  : {0, 1},             \* fTriggerDecision->IsMinBias()
   vz       : {2}]                \* GetRecEvent()->GetPrimaryVertex()->GetZ()


\* ---------------------------------------------------------------- histograms
HistPrefixes == {"hTrackHist", "hTrackInAcceptanceHist", "hMCTrackHist", "hMCTrackInAcceptanceHist"}

CorrelationName == <<"hTrackPtCorrelation">>

\* The THnSparses CreateHistos books.
CreateHistos ==
  {<<p, TriggerTable[i]>> : p \in HistPrefixes, i \in DOMAIN TriggerTable} \cup {CorrelationName}

\* fHistos->FillTHnSparse(name, data, weight) for every call of the list: the
\* booked histograms named get entries.
FillTHnSparse(histos, calls) ==
  histos \cup {calls[i].hist : i \in {j \in DOMAIN calls : calls[j].hist \in CreateHistos}}

\* ---------------------------------------------------------------- undefined behaviour
\* What a call through a NULL pointer can do: end the program, or go on with
\* whatever the read yields (nothing, or something taken for an object).
NullDeref == {"crash", "null", "garbage"}

\* ---------------------------------------------------------------- Process
\* Default of FillCorrelation's weight parameter.
FillCorrelationDefaultWeight == 1

\* Mutant of IsMCTrueTrack: the physical primary flag is not checked.
IsMCTrueTrackAnyParticle(trk, evnt) == GetTrack(evnt, Abs(trk.label))

\* Mutant of IsMCTrueTrack: the event is asked for the flag whatever the kind
\* of particle.
IsMCTrueTrackEventFlag(trk, evnt) ==
  LET label  == Abs(trk.label)
      mcpart == GetTrack(evnt, label)
  IN  IF mcpart = NullObj THEN NullObj
      ELSE IF ~EventIsPhysicalPrimary(evnt, label) THEN NullObj ELSE mcpart

IsMCTrueTrack(trk, evnt) ==
  LET label  == Abs(trk.label)
      mcpart == GetTrack(evnt, label)
  IN  IF mcpart = NullObj THEN NullObj
      ELSE IF mcpart.aod
           THEN (IF ~mcpart.primary THEN NullObj ELSE mcpart)
           ELSE (IF ~EventIsPhysicalPrimary(evnt, label) THEN NullObj ELSE mcpart)

\* The calls of FillTHnSparse FillHistogram makes: none or one.
FillHistogram(histname, trk, assoc, useMCkine, w) ==
  IF useMCkine /\ assoc = NullObj THEN <<>>
  ELSE << [hist   |-> histname,
           data   |-> << IF useMCkine THEN Abs(assoc.pt) ELSE Abs(trk.pt),
                         (IF fSwapEta THEN -1 ELSE 1) * (IF useMCkine THEN assoc.eta ELSE trk.eta),
                         IF useMCkine THEN assoc.phi ELSE trk.phi,
                         data.vz,
                         data.minbias >>,
           weight |-> w] >>

\* Mutant of FillCorrelation: the generated pt is taken with its sign.
FillCorrelationSignedPt(genparticle, recparticle, w) ==
  << [hist   |-> CorrelationName,
      data   |-> <<genparticle.pt, Abs(recparticle.pt), recparticle.eta, recparticle.phi>>,
      weight |-> w] >>

FillCorrelation(genparticle, recparticle, w) ==
  << [hist   |-> CorrelationName,
      data   |-> <<Abs(genparticle.pt), Abs(recparticle.pt), recparticle.eta, recparticle.phi>>,
      weight |-> w] >>

\* The call of FillCorrelation in the track loop: the weight is not passed.
CallFillCorrelation(assoc, trk) == FillCorrelation(assoc, trk, FillCorrelationDefaultWeight)

\* The kinematic and track selection cuts of the loop.
PassesCuts(trk) ==
  /\ ~(fKineCuts /\ ~trk.kine)
  /\ ~(fTrackSelection /\ ~trk.sel)

\* Mutant of FillLoop: the histograms of the first trigger name only are filled.
FillLoopFirstName(names, trk, assoc, clusterFound, w) ==
  IF names = <<>> THEN <<>>
  ELSE LET name == Head(names)
       IN  FillHistogram(<<"hTrackHist", name>>, trk, NullObj, FALSE, w)
           \o (IF clusterFound
               THEN FillHistogram(<<"hTrackInAcceptanceHist", name>>, trk, NullObj, FALSE, w)
               ELSE <<>>)
           \o (IF assoc # NullObj
               THEN FillHistogram(<<"hMCTrackHist", name>>, trk, assoc, TRUE, w)
                    \o (IF clusterFound
                        THEN FillHistogram(<<"hMCTrackInAcceptanceHist", name>>, trk, assoc, TRUE, w)
                        ELSE <<>>)
               ELSE <<>>)

RECURSIVE FillLoop(_, _, _, _, _)
\* The loop over the trigger names which fills the histograms of one track.
FillLoop(names, trk, assoc, clusterFound, w) ==
  IF names = <<>> THEN <<>>
  ELSE LET name == Head(names)
       IN  FillHistogram(<<"hTrackHist", name>>, trk, NullObj, FALSE, w)
           \o (IF clusterFound
               THEN FillHistogram(<<"hTrackInAcceptanceHist", name>>, trk, NullObj, FALSE, w)
               ELSE <<>>)
           \o (IF assoc # NullObj
               THEN FillHistogram(<<"hMCTrackHist", name>>, trk, assoc, TRUE, w)
                    \o (IF clusterFound
                        THEN FillHistogram(<<"hMCTrackInAcceptanceHist", name>>, trk, assoc, TRUE, w)
                        ELSE <<>>)
               ELSE <<>>)
           \o FillLoop(Tail(names), trk, assoc, clusterFound, w)

\* The result of the cluster matching of one track: "crash", "found" or
\* "none".  ub is the outcome of the call through the container pointer when
\* the container is missing.
MatchCluster(trk, ub) ==
  IF trk.clus >= 0
  THEN IF data.clusters
       THEN (IF ClusterAt(trk.clus) # NULL THEN "found" ELSE "none")
       ELSE (IF ub = "crash" THEN "crash" ELSE IF ub = "garbage" THEN "found" ELSE "none")
  ELSE "none"

\* AliDebug at the top of Process evaluates its message, which calls
\* GetEntries() through the matched-track container, only if debug messages
\* are switched on: "off" is debugging switched off, the rest is the message
\* evaluated, through a NULL pointer when the container is missing.
DebugOutcomes == IF data.matched THEN {"off"} ELSE {"off"} \cup NullDeref

\* The outcomes of the call At() through the cluster container for a track.
ClusterOutcomes(trk) == IF trk.clus >= 0 /\ ~data.clusters THEN NullDeref ELSE {"null"}

\* Process up to the track loop.
ProcessBegin ==
  /\ pc = "start"
  /\ \E dbg \in DebugOutcomes :
       IF dbg = "crash"
       THEN /\ pc' = "crashed"
            /\ UNCHANGED <<triggernames, weight, nErrors>>
       ELSE IF fRequestMCtrue /\ data.mc = NULL
       THEN /\ pc' = "done"
            /\ UNCHANGED <<triggernames, weight, nErrors>>
       ELSE IF ~data.matched
       THEN /\ pc' = "done"
            /\ triggernames' = data.triggers
            /\ nErrors' = nErrors + 1
            /\ UNCHANGED weight
       ELSE /\ pc' = "loop"
            /\ triggernames' = data.triggers
            /\ weight' = (IF fWeightHandler /\ data.mc # NULL THEN GetEventWeight(data.mc) ELSE 1)
            /\ UNCHANGED nErrors
  /\ UNCHANGED <<fSwapEta, fRequestMCtrue, fKineCuts, fTrackSelection, fWeightHandler,
                 data, track, assocMC, hasCluster, fills, fHistos>>
  /\ UNCHANGED upcVars

\* One pass of the track loop for the track the iterator returns.
ProcessTrack ==
  /\ pc = "loop"
  /\ \E trk \in Tracks :
       \E ub \in ClusterOutcomes(trk) :
         LET mctrue  == IF fRequestMCtrue THEN IsMCTrueTrack(trk, data.mc) ELSE NullObj
             corr    == IF fRequestMCtrue THEN CallFillCorrelation(mctrue, trk) ELSE <<>>
             matched == MatchCluster(trk, ub)
         IN  /\ track' = trk
             /\ IF ~PassesCuts(trk)
                THEN /\ assocMC' = NullObj
                     /\ fills' = <<>>
                     /\ hasCluster' = FALSE
                     /\ pc' = "loop"
                ELSE IF fRequestMCtrue /\ mctrue = NullObj
                THEN /\ assocMC' = NullObj
                     /\ fills' = <<>>
                     /\ hasCluster' = FALSE
                     /\ pc' = "loop"
                ELSE IF matched = "crash"
                THEN /\ assocMC' = mctrue
                     /\ fills' = corr
                     /\ hasCluster' = FALSE
                     /\ pc' = "crashed"
                ELSE /\ assocMC' = mctrue
                     /\ hasCluster' = (matched = "found")
                     /\ fills' = corr \o FillLoop(triggernames, trk, mctrue, matched = "found", weight)
                     /\ pc' = "loop"
             /\ fHistos' = FillTHnSparse(fHistos, fills')
  /\ UNCHANGED <<fSwapEta, fRequestMCtrue, fKineCuts, fTrackSelection, fWeightHandler,
                 data, triggernames, weight, nErrors>>
  /\ UNCHANGED upcVars

\* The iterator returns no further track (NULL, or an object which is no
\* AliVTrack): Process returns.
ProcessEnd ==
  /\ pc = "loop"
  /\ pc' = "done"
  /\ UNCHANGED <<fSwapEta, fRequestMCtrue, fKineCuts, fTrackSelection, fWeightHandler,
                 data, triggernames, weight, track, assocMC, hasCluster, fills,
                 fHistos, nErrors>>
  /\ UNCHANGED upcVars

\* ---------------------------------------------------------------- AddTaskUpcNano_MB
\* The analysis managers the macro can meet: present is GetAnalysisManager()
\* not NULL, input is the data type of the input event handler ("ESD" or
\* "AOD") or NULL without one, mctruth is GetMCtruthEventHandler() not NULL.
Managers == [present : BOOLEAN, input : {NULL, "ESD", "AOD"}, mctruth : BOOLEAN]

NoManager == [present |-> FALSE, input |-> NULL, mctruth |-> FALSE]

\* The values the local isMC can have when it is read: it is assigned kTRUE
\* with an MC truth handler and is read unassigned without one.
IsMCValues(manager) == IF manager.mctruth THEN {TRUE} ELSE BOOLEAN

\* One call of the macro.
AddTaskUpcNano_MB ==
  /\ Len(tasks) < MaxTasks
  /\ \E cutEta \in BOOLEAN :
       \E isMC \in IsMCValues(mgr) :
         IF ~mgr.present
         THEN /\ ret' = NullObj
              /\ UNCHANGED tasks
         ELSE IF mgr.input = NULL
         THEN /\ ret' = NullObj
              /\ UNCHANGED tasks
         ELSE LET task == [name |-> mgr.input, isMC |-> isMC, cutEta |-> cutEta,
                           input0 |-> "CommonInput", output1 |-> "ListHist"]
              IN  /\ tasks' = Append(tasks, task)
                  /\ ret' = task
  /\ UNCHANGED mgr
  /\ UNCHANGED compVars


Init ==
  /\ fSwapEta \in BOOLEAN
  /\ fRequestMCtrue \in BOOLEAN
  /\ fKineCuts \in BOOLEAN
  /\ fTrackSelection \in BOOLEAN
  /\ fWeightHandler \in BOOLEAN
  /\ data \in EventData
  /\ pc = "start"
  /\ triggernames = <<>>
  /\ weight = 1
  /\ track = NullObj
  /\ assocMC = NullObj
  /\ hasCluster = FALSE
  /\ fills = <<>>
  /\ fHistos = {}
  /\ nErrors = 0
  /\ mgr = NoManager
  /\ tasks = <<>>
  /\ ret = NullObj

Next == ProcessBegin \/ ProcessTrack \/ ProcessEnd

Spec == Init /\ [][Next]_vars

\* The macro alone, for every manager, beside a component which is not run.
InitUpc ==
  /\ fSwapEta = FALSE
  /\ fRequestMCtrue = FALSE
  /\ fKineCuts = FALSE
  /\ fTrackSelection = FALSE
  /\ fWeightHandler = FALSE
  /\ data = [matched |-> TRUE, clusters |-> TRUE, mc |-> NULL, triggers |-> <<>>,
             minbias |-> 0, vz |-> 2]
  /\ pc = "done"
  /\ triggernames = <<>>
  /\ weight = 1
  /\ track = NullObj
  /\ assocMC = NullObj
  /\ hasCluster = FALSE
  /\ fills = <<>>
  /\ fHistos = {}
  /\ nErrors = 0
  /\ mgr \in Managers
  /\ tasks = <<>>
  /\ ret = NullObj

NextUpc == AddTaskUpcNano_MB

SpecUpc == InitUpc /\ [][NextUpc]_vars

\* ---------------------------------------------------------------- properties
Range(f) == {f[i] : i \in DOMAIN f}

\* The FillTHnSparse calls of the current loop iteration into one histogram.
FillsOf(h) == SelectSeq(fills, LAMBDA f : f.hist = h)

CountFills(h) == Len(FillsOf(h))

\* The loop iteration of the track has run to its end.
Completed == track # NullObj /\ pc \in {"loop", "done"}

\* A particle exists at |label| in the MC event and is a physical primary,
\* while MC truth is requested.
MCTruthCond(trk) ==
  /\ fRequestMCtrue
  /\ data.mc # NULL
  /\ LET label == Abs(trk.label)
         part  == GetTrack(data.mc, label)
     IN  /\ part # NullObj
         /\ IF part.aod THEN part.primary ELSE EventIsPhysicalPrimary(data.mc, label)

\* The candidate passes the selection: the cuts which are set and, when MC
\* truth is requested, the MC truth resolution.
PassesSelection(trk) == PassesCuts(trk) /\ (fRequestMCtrue => MCTruthCond(trk))

\* The index resolves to a cluster of the cluster collection.
ResolvesCluster(trk) == trk.clus >= 0 /\ data.clusters /\ ClusterAt(trk.clus) # NULL

\* The weight of the event.
ExpectedWeight == IF fWeightHandler /\ data.mc # NULL THEN GetEventWeight(data.mc) ELSE 1

C3_InAcceptance ==
  (Completed /\ PassesSelection(track)) =>
    \A name \in Range(data.triggers) :
      LET acc == FillsOf(<<"hTrackInAcceptanceHist", name>>)
          raw == FillsOf(<<"hTrackHist", name>>)
      IN  /\ Len(acc) = 1 <=> ResolvesCluster(track)
          /\ Len(acc) = 1 =>
               /\ Len(raw) = 1
               /\ acc[1].data = raw[1].data
               /\ acc[1].weight = raw[1].weight

\* C4: every fill made while the event is processed, the fill of
\* "hTrackPtCorrelation" included, has the weight of the event: the weight
\* handler's for the MC event when both are there, 1 otherwise.
C4_Weight ==
  \A i \in DOMAIN fills : fills[i].weight = ExpectedWeight

\* C5: every aggregate which records an eta records -eta_raw with the sign
\* flip enabled and +eta_raw without, eta_raw being the eta of the object the
\* kinematics are taken from: the MC particle for the MC truth aggregates, the
\* track for the others and for the correlation aggregate.
C5_EtaSign ==
  \A i \in DOMAIN fills :
    LET h      == fills[i].hist
        etaRaw == IF h[1] \in {"hMCTrackHist", "hMCTrackInAcceptanceHist"}
                  THEN assocMC.eta ELSE track.eta
        eta    == IF h = CorrelationName THEN fills[i].data[3] ELSE fills[i].data[2]
    IN  eta = (IF fSwapEta THEN -etaRaw ELSE etaRaw)

\* C6: with MC truth requested a candidate which passes the cuts and resolves
\* to a physical primary causes exactly one fill of "hTrackPtCorrelation",
\* with (|generated pt|, |reconstructed pt|, reconstructed eta, reconstructed
\* phi), whatever the trigger classes of the event; any other candidate causes
\* none, and without MC truth requested the aggregate is never filled.
C6_Correlation ==
  /\ ~fRequestMCtrue => CorrelationName \notin fHistos /\ CountFills(CorrelationName) = 0
  /\ (track # NullObj /\ pc # "start") =>
       IF PassesCuts(track) /\ MCTruthCond(track)
       THEN /\ CountFills(CorrelationName) = 1
            /\ FillsOf(CorrelationName)[1].data
                 = << Abs(GetTrack(data.mc, Abs(track.label)).pt), Abs(track.pt),
                      track.eta, track.phi >>
       ELSE CountFills(CorrelationName) = 0

C6_Witness ==
  /\ Completed
  /\ fRequestMCtrue
  /\ data.triggers = <<>>
  /\ track.pt < 0
  /\ CountFills(CorrelationName) = 1

\* C7: with the matched-track container missing Process logs one error, fills
\* nothing and returns: it never ends in the call through the NULL pointer.
C7_MissingContainer ==
  (~data.matched /\ pc # "start") =>
    /\ pc = "done"
    /\ nErrors = 1
    /\ fills = <<>>
    /\ fHistos = {}

\* C8: with the cluster collection missing a selected candidate with a cluster
\* index >= 0 is handled as not cluster matched and Process does not fail: the
\* raw aggregate is filled once for every satisfied trigger class, the MC truth
\* aggregate too if the particle was resolved, no in-acceptance aggregate is.
C8_MissingClusters ==
  (/\ ~data.clusters
   /\ track # NullObj
   /\ pc # "start"
   /\ PassesSelection(track)
   /\ track.clus >= 0) =>
    /\ pc # "crashed"
    /\ ~hasCluster
    /\ \A name \in Range(data.triggers) :
         /\ CountFills(<<"hTrackHist", name>>) = 1
         /\ CountFills(<<"hMCTrackHist", name>>) = (IF MCTruthCond(track) THEN 1 ELSE 0)
         /\ CountFills(<<"hTrackInAcceptanceHist", name>>) = 0
         /\ CountFills(<<"hMCTrackInAcceptanceHist", name>>) = 0

\* C9: with MC truth requested, the pass of the loop for a candidate without a
\* particle at |label|, or with a particle which is no physical primary, fills
\* no aggregate at all and leaves Process in the track loop, where the
\* remaining candidates are taken up.
C9_SkipNotMCTrue ==
  [][ (/\ pc = "loop"
       /\ pc' # "done"
       /\ fRequestMCtrue
       /\ ~MCTruthCond(track'))
      => (/\ fills' = <<>>
          /\ fHistos' = fHistos
          /\ pc' = "loop") ]_vars

C9_Witness ==
  /\ pc = "loop"
  /\ fRequestMCtrue
  /\ track # NullObj
  /\ PassesCuts(track)
  /\ ~MCTruthCond(track)
  /\ fills = <<>>
  /\ fHistos # {}

\* C10: the task the macro creates is configured as MC iff the manager has an
\* MC truth event handler: without one the flag is false.
C10_IsMC ==
  ret # NullObj => ret.isMC = mgr.mctruth

====
